---- MODULE Spec2Model ----
(***************************************************************************)
(* Model of the helpdesk triage-and-draft pipeline of src/app.py:          *)
(* HelpdeskDataManager (ticket lookup), EmailTemplateManager,              *)
(* GPTContentGenerator and WorkflowEngine (resolver, merge, draft store).  *)
(*                                                                         *)
(* Conventions.                                                            *)
(*  - A Python Optional is a sequence of length <= 1: <<>> is None and     *)
(*    <<v>> is the value v.                                                *)
(*  - A Python dict is a function whose DOMAIN is its key set.             *)
(*  - A text is a sequence of string tokens; str.format concatenates the   *)
(*    template's literal parts with the rendered placeholder values.       *)
(*    Accented letters of the source's literals are written unaccented,    *)
(*    but in the markers and keywords the preprocessing searches for.      *)
(*  - datetime.now() is the variable clock; every request is served at a   *)
(*    later instant than the previous one.                                 *)
(*  - uuid.uuid4().hex[:8] is a random 32-bit value: a nondeterministic    *)
(*    choice over the id space, abstracted to DraftIds.                    *)
(*  - The server serves each request in a thread of its own (app.run, the  *)
(*    development server's default).  requests holds the validate-send     *)
(*    calls that are served statement by statement: for each thread, the   *)
(*    call's arguments and its position in validate_and_send_draft.  The   *)
(*    other actions serve a request in one step.                           *)
(***************************************************************************)
EXTENDS Integers, Sequences, FiniteSets, TLC

VARIABLES tickets_df, data_source, drafts, clock, result, requests

vars == <<tickets_df, data_source, drafts, clock, result, requests>>

(***************************************************************************)
(* Bounds of the model.                                                    *)
(***************************************************************************)
\* Number of requests served in a behaviour (the last instant of clock).
MaxClock == 3

\* Size of the abstracted id space of uuid4().hex[:8].
MaxDraftIds == 2

DraftIds == 1..MaxDraftIds

(***************************************************************************)
(* Python helpers.                                                         *)
(***************************************************************************)
None == <<>>

Some(v) == <<v>>

\* dict.get(key, default)
Get(d, key, default) == IF key \in DOMAIN d THEN d[key] ELSE default

\* The dict holding the items of g updated by the items of f.
Merge(f, g) == [k \in (DOMAIN f) \cup (DOMAIN g) |-> IF k \in DOMAIN f THEN f[k] ELSE g[k]]

(***************************************************************************)
(* HelpdeskDataManager: the sample dataset and the ticket lookup.          *)
(***************************************************************************)
\* _create_sample_data: the three rows of the fallback dataset (the columns
\* the pipeline reads).
SampleTickets ==
    << [ticket_id |-> 30000, ticket_subject |-> "Synchronisation e-commerce",
        customer |-> "ACME Corp", customer_email |-> "it@acme.com",
        team_clean |-> "Integration 1", priority_text |-> "Medium",
        stage_clean |-> "In Progress",
        description_clean |-> "Contexte: apres migration, plusieurs anomalies constatees.",
        is_functional |-> FALSE, is_technical |-> TRUE],
       [ticket_id |-> 30001, ticket_subject |-> "Erreurs dashboard utilisateur",
        customer |-> "TechCorp", customer_email |-> "support@techcorp.com",
        team_clean |-> "Integration 1", priority_text |-> "High",
        stage_clean |-> "New",
        description_clean |-> "Le dashboard principal ne s'affiche plus correctement apres la mise a jour.",
        is_functional |-> TRUE, is_technical |-> FALSE],
       [ticket_id |-> 30002, ticket_subject |-> "Probleme webhook API",
        customer |-> "DataFlow Inc", customer_email |-> "tech@dataflow.com",
        team_clean |-> "Integration 2", priority_text |-> "Urgent",
        stage_clean |-> "New",
        description_clean |-> "Les webhooks ne sont plus recus depuis ce matin. Impact critique sur la production.",
        is_functional |-> FALSE, is_technical |-> TRUE] >>

\* A None held by a text column of a ticket (get_ticket_by_id turns NaN
\* cells into None).
PyNone == "<None>"

\* pd.isna(cell)
isna(cell) == cell.kind = "nan"

\* The columns of a table that hold raw cells.
RawColumns == {"team_name", "priority", "description", "stage_name"}

\* The rows of the table df whose ticket_id equals ticket_id, in order.
RowsWithId(df, ticket_id) ==
    SelectSeq(df, LAMBDA row : "ticket_id" \in DOMAIN row /\ row.ticket_id = ticket_id)

\* A lookup that answers with the first row of the table when no row
\* matches (iloc[0] taken of the table, not of the selection).
get_ticket_by_id_first_row(ticket_id) ==
    IF tickets_df = None THEN None
    ELSE LET ticket_row == RowsWithId(tickets_df[1], ticket_id)
         IN  IF ticket_row = <<>> THEN Some(tickets_df[1][1]) ELSE Some(ticket_row[1])

\* get_ticket_by_id: None when no table is loaded or no row matches, else the
\* first matching row as a dict, its missing cells turned into None.
get_ticket_by_id(ticket_id) ==
    IF tickets_df = None THEN None
    ELSE LET ticket_row == RowsWithId(tickets_df[1], ticket_id)
             ticket_dict == ticket_row[1]
         IN  IF ticket_row = <<>> THEN None
             ELSE Some([key \in DOMAIN ticket_dict |->
                          IF key \in RawColumns /\ isna(ticket_dict[key])
                          THEN PyNone ELSE ticket_dict[key]])

(***************************************************************************)
(* EmailTemplateManager: the registry of the three templates.  A template  *)
(* text is a sequence of parts <<kind, text>>: a literal, or a placeholder *)
(* {name}.                                                                 *)
(***************************************************************************)
Lit(text) == <<"lit", text>>

Ph(name) == <<"ph", name>>

ResponseTypes == {"urgent_acknowledgment", "clarification_request", "standard_acknowledgment"}

\* A registry that holds no clarification_request template.
templates_without_clarification ==
    [urgent_acknowledgment |->
        [subject |-> << Lit("URGENT - Accuse de reception - Ticket #"), Ph("ticket_id") >>,
         body |-> << Lit("Bonjour "), Ph("customer_name"), Ph("gpt_content") >>],
     standard_acknowledgment |->
        [subject |-> << Lit("Accuse de reception - Ticket #"), Ph("ticket_id") >>,
         body |-> << Lit("Bonjour "), Ph("customer_name"), Ph("gpt_content") >>]]

templates ==
    [urgent_acknowledgment |->
        [subject |-> << Lit("URGENT - Accuse de reception - Ticket #"), Ph("ticket_id") >>,
         body |-> << Lit("Bonjour "), Ph("customer_name"),
                     Lit(", Nous avons bien recu votre demande URGENTE concernant : "), Ph("issue"),
                     Lit(" Notre equipe "), Ph("team"),
                     Lit(" prend immediatement en charge votre demande avec la plus haute priorite. "),
                     Ph("gpt_content"),
                     Lit(" Nous vous tiendrons informe de l'avancement dans les plus brefs delais. Cordialement, L'equipe Support Karizma Reference: #"),
                     Ph("ticket_id") >>],
     clarification_request |->
        [subject |-> << Lit("Demande de clarification - Ticket #"), Ph("ticket_id") >>,
         body |-> << Lit("Bonjour "), Ph("customer_name"),
                     Lit(", Nous avons bien recu votre demande concernant : "), Ph("issue"),
                     Lit(" Notre equipe "), Ph("team"),
                     Lit(" etudie votre demande fonctionnelle. "),
                     Ph("gpt_content"),
                     Lit(" N'hesitez pas a nous contacter pour toute information complementaire. Cordialement, L'equipe Support Karizma Reference: #"),
                     Ph("ticket_id") >>],
     standard_acknowledgment |->
        [subject |-> << Lit("Accuse de reception - Ticket #"), Ph("ticket_id") >>,
         body |-> << Lit("Bonjour "), Ph("customer_name"),
                     Lit(", Nous avons bien recu votre demande concernant : "), Ph("issue"),
                     Lit(" Notre equipe "), Ph("team"),
                     Lit(" prend en charge votre demande technique. "),
                     Ph("gpt_content"),
                     Lit(" Nous vous tiendrons informe de l'avancement. Cordialement, L'equipe Support Karizma Reference: #"),
                     Ph("ticket_id") >>]]

\* get_template: templates.get(response_type)
get_template(response_type) ==
    IF response_type \in DOMAIN templates THEN Some(templates[response_type]) ELSE None

(***************************************************************************)
(* WorkflowEngine.determine_response_type                                  *)
(***************************************************************************)
\* A resolver that tests is_functional before the priority.
determine_response_type_functional_first(ticket) ==
    LET priority == Get(ticket, "priority_text", "Medium")
        is_functional == Get(ticket, "is_functional", FALSE)
    IN  IF is_functional
        THEN <<"clarification_request", <<"Functional issue detected, clarification needed">> >>
        ELSE IF priority \in {"Urgent", "High"}
        THEN <<"urgent_acknowledgment", <<"Priority is ", priority, ", requires urgent response">> >>
        ELSE <<"standard_acknowledgment", <<"Standard processing">> >>

\* A resolver that tests is_technical before is_functional.
determine_response_type_technical_first(ticket) ==
    LET priority == Get(ticket, "priority_text", "Medium")
        is_functional == Get(ticket, "is_functional", FALSE)
        is_technical == Get(ticket, "is_technical", FALSE)
    IN  IF priority \in {"Urgent", "High"}
        THEN <<"urgent_acknowledgment", <<"Priority is ", priority, ", requires urgent response">> >>
        ELSE IF is_technical /\ priority \in {"Low", "Medium"}
        THEN <<"standard_acknowledgment", <<"Technical non-urgent issue, standard acknowledgment">> >>
        ELSE IF is_functional
        THEN <<"clarification_request", <<"Functional issue detected, clarification needed">> >>
        ELSE <<"standard_acknowledgment", <<"Standard processing">> >>

\* A resolver whose last branch asks for a clarification.
determine_response_type_default_clarification(ticket) ==
    LET priority == Get(ticket, "priority_text", "Medium")
        is_functional == Get(ticket, "is_functional", FALSE)
        is_technical == Get(ticket, "is_technical", FALSE)
    IN  IF priority \in {"Urgent", "High"}
        THEN <<"urgent_acknowledgment", <<"Priority is ", priority, ", requires urgent response">> >>
        ELSE IF is_functional
        THEN <<"clarification_request", <<"Functional issue detected, clarification needed">> >>
        ELSE IF is_technical /\ priority \in {"Low", "Medium"}
        THEN <<"standard_acknowledgment", <<"Technical non-urgent issue, standard acknowledgment">> >>
        ELSE <<"clarification_request", <<"Standard processing">> >>

determine_response_type(ticket) ==
    LET priority == Get(ticket, "priority_text", "Medium")
        is_functional == Get(ticket, "is_functional", FALSE)
        is_technical == Get(ticket, "is_technical", FALSE)
    IN  IF priority \in {"Urgent", "High"}
        THEN <<"urgent_acknowledgment", <<"Priority is ", priority, ", requires urgent response">> >>
        ELSE IF is_functional
        THEN <<"clarification_request", <<"Functional issue detected, clarification needed">> >>
        ELSE IF is_technical /\ priority \in {"Low", "Medium"}
        THEN <<"standard_acknowledgment", <<"Technical non-urgent issue, standard acknowledgment">> >>
        ELSE <<"standard_acknowledgment", <<"Standard processing">> >>

(***************************************************************************)
(* GPTContentGenerator.  The provider is the environment: each call of     *)
(* generate_content meets one of ProviderOutcomes.                         *)
(***************************************************************************)
\* Whitespace tokens of a text, as str.strip() sees them.
Whitespace == {" ", "\n"}

RECURSIVE LStrip(_)
LStrip(text) ==
    IF text # <<>> /\ Head(text) \in Whitespace THEN LStrip(Tail(text)) ELSE text

RECURSIVE RStrip(_)
RStrip(text) ==
    IF text # <<>> /\ text[Len(text)] \in Whitespace
    THEN RStrip(SubSeq(text, 1, Len(text) - 1))
    ELSE text

\* str.strip()
Strip(text) == RStrip(LStrip(text))

\* What a call of generate_content can meet: the api key unset, the api key
\* left at its placeholder, the provider call raising (network error,
\* timeout, provider error), the provider answering with a content.
ProviderOutcomes ==
    { [kind |-> "no_key"], [kind |-> "placeholder_key"], [kind |-> "error"],
      [kind |-> "content", content |-> <<" ", "Votre incident est pris en charge.", "\n">>],
      [kind |-> "content", content |-> <<" ", "\n">>] }

\* The outcomes a workflow request is served under.
WorkflowProviderOutcomes == { p \in ProviderOutcomes : p.kind # "placeholder_key" }

\* A fallback that puts the ticket's subject (the local it computes) in the text.
_get_fallback_content_with_subject(ticket, response_type) ==
    LET subject == Get(ticket, "ticket_subject", "votre demande")
    IN  <<"Nous prenons en charge votre demande : ", subject>>

\* _get_fallback_content: fallback_map.get(response_type, generic).
_get_fallback_content(ticket, response_type) ==
    CASE response_type = "urgent_acknowledgment" ->
           <<"Cette situation requiert notre attention immediate et nous mobilisons des maintenant toutes nos ressources pour vous apporter une solution rapide. Notre equipe technique specialisee va prendre contact avec vous dans les plus brefs delais.">>
      [] response_type = "clarification_request" ->
           <<"Afin de vous proposer la solution la plus adaptee a vos besoins, nous souhaiterions obtenir quelques informations complementaires concernant votre environnement et les circonstances de ce probleme. Un membre de notre equipe va vous contacter prochainement.">>
      [] response_type = "standard_acknowledgment" ->
           <<"Nous avons assigne votre demande a notre equipe technique qui possede l'expertise necessaire pour resoudre ce type de problematique. Nous vous tiendrons informe regulierement de l'avancement de la resolution.">>
      [] OTHER ->
           <<"Nous prenons en charge votre demande avec toute l'attention qu'elle merite et vous tiendrons informe de son evolution.">>

\* A generate_content that answers with no text when the provider call raises.
generate_content_no_fallback(ticket, response_type, provider) ==
    IF provider.kind \in {"no_key", "placeholder_key"}
    THEN _get_fallback_content(ticket, response_type)
    ELSE IF provider.kind = "error"
    THEN <<>>
    ELSE Strip(provider.content)

\* generate_content: the fallback when the key is not configured or the call
\* raises, else the stripped content of the provider's first choice.
generate_content(ticket, response_type, provider) ==
    IF provider.kind \in {"no_key", "placeholder_key"}
    THEN _get_fallback_content(ticket, response_type)
    ELSE IF provider.kind = "error"
    THEN _get_fallback_content(ticket, response_type)
    ELSE Strip(provider.content)

(***************************************************************************)
(* WorkflowEngine._merge_template_content                                  *)
(***************************************************************************)
\* str(v) of a text value, as a text: None prints as "None".
Str(v) == IF v = PyNone THEN <<"None">> ELSE IF v = "" THEN <<>> ELSE <<v>>

\* str(ticket_id) of the ticket's id, as a text; the default '' when the
\* ticket has no such key.
StrId(ticket) ==
    IF "ticket_id" \in DOMAIN ticket THEN <<ToString(ticket.ticket_id)>> ELSE <<>>

RECURSIVE Format(_, _)
\* template_text.format(**placeholders), placeholders holding the text that
\* format substitutes for each name.
Format(template_text, placeholders) ==
    IF template_text = <<>> THEN <<>>
    ELSE LET part == Head(template_text)
         IN  (IF part[1] = "lit" THEN <<part[2]>> ELSE placeholders[part[2]])
             \o Format(Tail(template_text), placeholders)

_merge_template_content(ticket, template, gpt_content) ==
    LET placeholders ==
            [ticket_id |-> StrId(ticket),
             customer_name |-> Str(Get(ticket, "customer", "")),
             issue |-> Str(Get(ticket, "ticket_subject", "")),
             team |-> Str(Get(ticket, "team_clean", "")),
             gpt_content |-> gpt_content]
    IN  [to |-> Get(ticket, "customer_email", ""),
         subject |-> Format(template.subject, placeholders),
         body |-> Format(template.body, placeholders),
         ticket_id |-> Get(ticket, "ticket_id", "")]

(***************************************************************************)
(* WorkflowEngine: the draft store.  drafts maps a draft id to the draft   *)
(* dict {id, email_content, ticket_id, status, created_at} and, once set,  *)
(* sent_at, modified_at, cancelled_at.                                     *)
(***************************************************************************)
\* d[key] = value on a dict.
SetItem(d, key, value) ==
    [k \in (DOMAIN d) \cup {key} |-> IF k = key THEN value ELSE d[k]]

\* _create_draft: self.drafts[draft_id] = {...}, draft_id being the value
\* uuid4().hex[:8] yielded.
_create_draft(ds, email_content, ticket_id, draft_id, now) ==
    SetItem(ds, draft_id,
            [id |-> draft_id, email_content |-> email_content,
             ticket_id |-> ticket_id, status |-> "draft", created_at |-> now])

\* A get_draft that answers with some stored draft when draft_id is not a key.
get_draft_or_any(draft_id) ==
    IF draft_id \in DOMAIN drafts THEN Some(drafts[draft_id])
    ELSE IF DOMAIN drafts # {} THEN Some(drafts[CHOOSE d \in DOMAIN drafts : TRUE])
    ELSE None

\* get_draft: self.drafts.get(draft_id)
get_draft(draft_id) ==
    IF draft_id \in DOMAIN drafts THEN Some(drafts[draft_id]) ELSE None

\* An edit that is email_content.update(modifications): unknown keys are added.
ApplyModificationsUpdate(email_content, modifications) ==
    Merge(modifications, email_content)

\* The edit loop: for key, value in modifications.items():
\*                    if key in email_content: email_content[key] = value
ApplyModifications(email_content, modifications) ==
    [k \in DOMAIN email_content |->
        IF k \in DOMAIN modifications THEN modifications[k] ELSE email_content[k]]

\* The send branch: status = 'sent', sent_at = now.
SendUpdate(draft, now) ==
    SetItem(SetItem(draft, "status", "sent"), "sent_at", now)

\* The edit branch with truthy modifications: the edit loop, modified_at = now.
EditUpdate(draft, modifications, now) ==
    SetItem(SetItem(draft, "email_content",
                    ApplyModifications(draft.email_content, modifications)),
            "modified_at", now)

\* A cancel that sets the status and forgets cancelled_at.
CancelUpdateNoStamp(draft, now) ==
    SetItem(draft, "status", "cancelled")

\* An else branch that rejects the request and leaves the draft as it is.
CancelUpdateRejected(draft, now) == draft

\* The else branch: status = 'cancelled', cancelled_at = now.
CancelUpdate(draft, now) ==
    SetItem(SetItem(draft, "status", "cancelled"), "cancelled_at", now)

\* bool(modifications): None and the empty dict are falsy.
Truthy(modifications) == modifications # None /\ DOMAIN modifications[1] # {}

(***************************************************************************)
(* Inputs of the requests.                                                 *)
(***************************************************************************)
\* ticket_id of a request: the ids of two sample rows (Medium and Urgent) and
\* one id of no row.
TicketIdInputs == {30000, 30002, 40404}

\* action of a validate-send request: the three documented ones and another.
ActionInputs == {"send", "edit", "cancel", "archive"}

\* modifications of a validate-send request: absent (None), or a dict.
ModificationInputs ==
    { None,
      Some(<<>>),
      Some([subject |-> <<"New subject">>]),
      Some([to |-> "new@customer.com", body |-> <<"New body">>, cc |-> "boss@customer.com"]),
      Some([cc |-> "boss@customer.com"]),
      Some([ticket_id |-> 30002]) }

\* The modifications sent along with action: an edit carries any of
\* ModificationInputs, another action none or one it has no use for.
ModificationsOf(action) ==
    IF action = "edit" THEN ModificationInputs
    ELSE {None, Some([subject |-> <<"New subject">>])}

\* priority_text of a ticket handed to the resolver: the four normalized
\* values, a value outside them, a lower-case spelling, a None.
PriorityInputs == {"Low", "Medium", "High", "Urgent", "Critical", "urgent", PyNone}

\* The dict with key k when opt holds a value, the empty dict when opt is None.
Field(k, opt) == IF opt = None THEN <<>> ELSE (k :> opt[1])

\* Tickets handed to the resolver: every subset of priority_text,
\* is_functional, is_technical present.
ResolverTicketInputs ==
    { Field("priority_text", p) @@ Field("is_functional", f) @@ Field("is_technical", t) :
        p \in {None} \cup {Some(x) : x \in PriorityInputs},
        f \in {None, Some(TRUE), Some(FALSE)},
        t \in {None, Some(TRUE), Some(FALSE)} }

\* email_content and ticket_id of a create-draft request: a full email
\* record, and one without a subject.
CreateInputs ==
    { [email_content |-> [to |-> "it@acme.com", subject |-> <<"Manual subject">>,
                          body |-> <<"Manual body">>],
       ticket_id |-> 30000],
      [email_content |-> [to |-> "it@acme.com", body |-> <<"Manual body">>],
       ticket_id |-> 30000] }

\* What a generate-content request can meet: ProviderOutcomes, and the
\* provider answering with an empty content.
GeneratorProviderOutcomes ==
    ProviderOutcomes \cup { [kind |-> "content", content |-> <<>>] }

\* response_type of a generate-content request: the three of the resolver and
\* two it never answers.
GeneratorResponseTypes == ResponseTypes \cup {"escalation", "follow_up"}

\* ticket of a generate-content request: two rows of the dataset, a ticket
\* with no ticket_subject, one whose ticket_subject is None.
GeneratorTicketInputs ==
    { SampleTickets[1], SampleTickets[2],
      [ticket_id |-> 30003, customer |-> "Nova SA"],
      [ticket_id |-> 30004, customer |-> "Nova SA", ticket_subject |-> PyNone] }

\* A text column of a ticket handed to the merger: holding a value, holding
\* None (an empty cell, as get_ticket_by_id returns it), or no such key.
MergerFieldInputs(value) == {None, Some(value), Some(PyNone)}

\* Tickets handed to the merger: ticket_id present or not, and each of the
\* four text columns it reads as MergerFieldInputs.
MergerTicketInputs ==
    { Field("ticket_id", i) @@ Field("customer", c) @@ Field("ticket_subject", s)
        @@ Field("team_clean", t) @@ Field("customer_email", e) :
        i \in {None, Some(30005)},
        c \in MergerFieldInputs("Nova SA"),
        s \in MergerFieldInputs("Export comptable"),
        t \in MergerFieldInputs("DevOps"),
        e \in MergerFieldInputs("contact@nova.com") }

(***************************************************************************)
(* HelpdeskDataManager: loading and preprocessing.  A raw cell of a loaded *)
(* table is NaN (an empty cell), a text or a number; `marker in text` is   *)
(* the presence of the token marker in the text.                           *)
(***************************************************************************)
NaN == [kind |-> "nan"]

Text(text) == [kind |-> "text", text |-> text]

Num(n) == [kind |-> "num", num |-> n]

\* not cell: the empty text and the number 0 are falsy.
Not(cell) ==
    \/ cell.kind = "text" /\ cell.text = <<>>
    \/ cell.kind = "num" /\ cell.num = 0

\* str(cell) of a cell that is not NaN.
StrCell(cell) == IF cell.kind = "text" THEN cell.text ELSE <<ToString(cell.num)>>

\* marker in text
In(marker, text) == \E i \in DOMAIN text : text[i] = marker

\* The numerals pd.to_numeric parses in the texts of the inputs.
Numerals == ("0" :> 0) @@ ("1" :> 1) @@ ("2" :> 2) @@ ("3" :> 3) @@ ("7" :> 7)

\* pd.to_numeric(cell, errors='coerce'): a number stays, a text that is a
\* numeral is parsed, every other text and NaN give NaN.
to_numeric(cell) ==
    IF cell.kind = "num" THEN cell
    ELSE IF cell.kind = "text" /\ Len(cell.text) = 1 /\ cell.text[1] \in DOMAIN Numerals
    THEN Num(Numerals[cell.text[1]])
    ELSE NaN

priority_map == (0 :> "Low") @@ (1 :> "Medium") @@ (2 :> "High") @@ (3 :> "Urgent")

\* A mapping of the priority that leaves the unmapped codes null.
MapPriorityNoFillna(priority) ==
    IF priority.kind = "num" /\ priority.num \in DOMAIN priority_map
    THEN priority_map[priority.num]
    ELSE PyNone

\* tickets_df['priority'].map(priority_map).fillna('Medium'), on one cell.
MapPriority(priority) ==
    IF priority.kind = "num" /\ priority.num \in DOMAIN priority_map
    THEN priority_map[priority.num]
    ELSE "Medium"

\* A team cleaner that looks for the Integration 2 markers first.
_clean_team_name_second_first(team_name) ==
    IF isna(team_name) \/ Not(team_name) THEN "DevOps"
    ELSE LET team_str == StrCell(team_name)
         IN  IF In("Integration 2", team_str) \/ In("Intégration 2", team_str)
             THEN "Integration 2"
             ELSE IF In("Integration 1", team_str) \/ In("Intégration 1", team_str)
             THEN "Integration 1"
             ELSE "DevOps"

_clean_team_name(team_name) ==
    IF isna(team_name) \/ Not(team_name) THEN "DevOps"
    ELSE LET team_str == StrCell(team_name)
         IN  IF In("Integration 1", team_str) \/ In("Intégration 1", team_str)
             THEN "Integration 1"
             ELSE IF In("Integration 2", team_str) \/ In("Intégration 2", team_str)
             THEN "Integration 2"
             ELSE IF In("DevOps", team_str)
             THEN "DevOps"
             ELSE "DevOps"

\* The tokens re.sub(r'<[^>]+>', '', ...) removes.
HtmlTags == {"<p>", "</p>", "<br/>"}

_clean_description(description) ==
    IF isna(description) \/ Not(description) THEN <<>>
    ELSE Strip(SelectSeq(StrCell(description), LAMBDA token : token \notin HtmlTags))

_clean_stage_name(stage_name) ==
    IF isna(stage_name) \/ Not(stage_name) THEN "New"
    ELSE LET stage_str == StrCell(stage_name)
         IN  IF In("In Progress", stage_str) \/ In("En cours", stage_str)
             THEN "In Progress"
             ELSE IF In("Closed", stage_str) \/ In("Cloturé", stage_str)
             THEN "Closed"
             ELSE "New"

\* str.lower() on the tokens of the inputs that hold capitals.
lower(text) ==
    [i \in DOMAIN text |->
        CASE text[i] = "Dashboard" -> "dashboard"
          [] text[i] = "API" -> "api"
          [] text[i] = "Page" -> "page"
          [] OTHER -> text[i]]

functional_keywords ==
    {"dashboard", "interface", "menu", "écran", "affichage",
     "navigation", "bouton", "formulaire", "page", "visibles"}

technical_keywords ==
    {"api", "webhook", "synchronisation", "base de données",
     "serveur", "erreur système", "crash", "migration", "journal",
     "e-commerce", "comptable"}

\* description is a description_clean: a text, never NaN.
_is_functional_issue(description) ==
    IF description = <<>> THEN FALSE
    ELSE \E keyword \in functional_keywords : In(keyword, lower(description))

_is_technical_issue(description) ==
    IF description = <<>> THEN FALSE
    ELSE \E keyword \in technical_keywords : In(keyword, lower(description))

\* _preprocess_data on one row of the table; the columns of the table are the
\* keys of the row.  ticket_id is numeric in every input and to_numeric
\* leaves it as it is.
PreprocessRow(row) ==
    LET numeric == [k \in DOMAIN row |->
                       IF k = "priority" THEN to_numeric(row[k]) ELSE row[k]]
        description_clean ==
            IF "description" \in DOMAIN row THEN _clean_description(row.description) ELSE <<>>
    IN  Merge([team_clean |-> IF "team_name" \in DOMAIN row
                              THEN _clean_team_name(row.team_name) ELSE "DevOps",
               priority_text |-> IF "priority" \in DOMAIN row
                                 THEN MapPriority(numeric.priority) ELSE "Medium",
               description_clean |-> description_clean,
               stage_clean |-> IF "stage_name" \in DOMAIN row
                               THEN _clean_stage_name(row.stage_name) ELSE "New",
               is_functional |-> _is_functional_issue(description_clean),
               is_technical |-> _is_technical_issue(description_clean)],
              numeric)

_preprocess_data(table) == [i \in DOMAIN table |-> PreprocessRow(table[i])]

\* The columns of a raw row that the preprocessing does not read.
BaseRow ==
    [ticket_id |-> 30010, ticket_subject |-> "Export comptable",
     customer |-> "Nova SA", customer_email |-> "contact@nova.com"]

\* Raw team_name cells: the multilingual format of each team, one marker
\* alone, both teams' markers in one text, other texts, empty and missing
\* values, numbers.
TeamNameInputs ==
    { Text(<<"{'en_US': '", "Integration 1", "', 'fr_FR': '", "Intégration 1", "'}">>),
      Text(<<"Intégration 1">>),
      Text(<<"Integration 2", " / ", "Integration 1">>),
      Text(<<"Intégration 2", " / ", "Intégration 1">>),
      Text(<<"{'en_US': '", "Integration 2", "', 'fr_FR': '", "Intégration 2", "'}">>),
      Text(<<"Intégration 2">>),
      Text(<<"DevOps">>), Text(<<"Support">>), Text(<<>>), NaN, Num(0), Num(5) }

\* Raw priority cells: the four codes, a code outside them, numerals as
\* texts, a text that is no number, empty and missing values.
PriorityCellInputs ==
    { Num(0), Num(1), Num(2), Num(3), Num(7), Text(<<"2">>), Text(<<"7">>),
      Text(<<"high">>), Text(<<>>), NaN }

DescriptionInputs ==
    { Text(<<"<p>", "Le ", "Dashboard", " ne repond plus", "</p>">>),
      Text(<<"<p>", "Erreur ", "API", " sur la ", "page", "</p>">>),
      Text(<<"Question de facturation">>),
      Text(<<"<p>", " ", "</p>">>), Text(<<>>), NaN }

StageNameInputs ==
    { Text(<<"{'en_US': '", "In Progress", "', 'fr_FR': '", "En cours", "'}">>),
      Text(<<"Cloturé">>), Text(<<"Closed">>), Text(<<"Nouveau">>), Text(<<>>), NaN }

\* Raw rows: no raw column, one raw column with each of its inputs, and the
\* four columns together.
RawRowInputs ==
    {BaseRow}
    \cup { BaseRow @@ ("team_name" :> c) : c \in TeamNameInputs }
    \cup { BaseRow @@ ("priority" :> c) : c \in PriorityCellInputs }
    \cup { BaseRow @@ ("description" :> c) : c \in DescriptionInputs }
    \cup { BaseRow @@ ("stage_name" :> c) : c \in StageNameInputs }
    \cup { BaseRow @@ ("team_name" :> t) @@ ("priority" :> p)
               @@ ("description" :> d) @@ ("stage_name" :> g) :
             t \in {Text(<<"Intégration 2">>), NaN},
             p \in {Num(3), Text(<<"high">>)},
             d \in {Text(<<"<p>", "Erreur ", "API", " sur la ", "page", "</p>">>), NaN},
             g \in {Text(<<"Closed">>), NaN} }

\* Raw tables a source delivers: one row, or two rows of the same columns.
RawTableInputs ==
    { <<row>> : row \in RawRowInputs }
    \cup { << BaseRow @@ ("priority" :> Num(0)),
              [BaseRow EXCEPT !.ticket_id = 30011] @@ ("priority" :> NaN) >> }

\* What a load meets.  sheets: the client is not configured, the sheet
\* yields no data, a header row only, or a header and rows; local: the
\* local file is absent, cannot be read, or holds rows.
\* sheets_table and local_table are the rows the source holds.
LoadEnvironments ==
    { [sheets |-> "rows", sheets_table |-> t, local |-> "absent"] : t \in RawTableInputs }
    \cup { [sheets |-> "rows", sheets_table |-> <<BaseRow>>,
            local |-> "rows", local_table |-> <<[BaseRow EXCEPT !.ticket_id = 30011]>>] }
    \cup { [sheets |-> "header_only", local |-> "absent"],
           [sheets |-> "header_only",
            local |-> "rows", local_table |-> <<[BaseRow EXCEPT !.ticket_id = 30011]>>] }
    \cup { [sheets |-> g, local |-> "rows", local_table |-> t] :
             g \in {"not_configured", "no_data"}, t \in RawTableInputs }
    \cup { [sheets |-> g, local |-> l] :
             g \in {"not_configured", "no_data"}, l \in {"absent", "error"} }

\* A load that looks for the local file before it asks the sheet.
load_data_local_first(df, env) ==
    IF env.local = "rows"
    THEN <<Some(_preprocess_data(env.local_table)), "local_file", <<"local_file">> >>
    ELSE IF env.sheets = "rows"
    THEN <<Some(_preprocess_data(env.sheets_table)), "google_sheets",
           <<"local_file", "google_sheets">> >>
    ELSE IF env.sheets = "header_only"
    THEN <<df, "google_sheets", <<"local_file", "google_sheets">> >>
    ELSE <<Some(SampleTickets), "sample_data",
           <<"local_file", "google_sheets", "sample_data">> >>

\* load_data on a manager whose table is df: <<tickets_df, data_source,
\* the loaders that ran, in order>> after it.  _try_google_sheets runs first;
\* it assigns the table only when the sheet has rows, and succeeds whenever
\* the sheet yields data.  _load_from_local_file runs when the sheet did not
\* succeed and the file exists, _create_sample_data when neither succeeded.
load_data(df, env) ==
    IF env.sheets = "rows"
    THEN <<Some(_preprocess_data(env.sheets_table)), "google_sheets", <<"google_sheets">> >>
    ELSE IF env.sheets = "header_only"
    THEN <<IF df = None THEN None ELSE Some(_preprocess_data(df[1])), "google_sheets",
           <<"google_sheets">> >>
    ELSE IF env.local = "rows"
    THEN <<Some(_preprocess_data(env.local_table)), "local_file",
           <<"google_sheets", "local_file">> >>
    ELSE IF env.local = "error"
    THEN <<Some(SampleTickets), "sample_data",
           <<"google_sheets", "local_file", "sample_data">> >>
    ELSE <<Some(SampleTickets), "sample_data", <<"google_sheets", "sample_data">> >>

\* The threads that serve validate-send requests at the same time.
Threads == {"thread_a", "thread_b"}

\* modifications of the validate-send requests that race: none, two edits
\* of the same two fields, an edit of another field.
RacingModificationInputs ==
    { None,
      Some([subject |-> <<"Subject A">>, body |-> <<"Body A">>]),
      Some([subject |-> <<"Subject B">>, body |-> <<"Body B">>]),
      Some([to |-> "new@customer.com"]) }

\* The modifications sent along with action in a racing request.
RacingModificationsOf(action) ==
    IF action = "edit" THEN RacingModificationInputs ELSE {None}

\* modifications.items(): the keys of the dict in its order.
Items(modifications) ==
    SelectSeq(<<"to", "subject", "body", "cc">>, LAMBDA key : key \in DOMAIN modifications)

(***************************************************************************)
(* State after construction: HelpdeskDataManager() has loaded the dataset, *)
(* WorkflowEngine() has an empty draft store, no request was served.       *)
(***************************************************************************)
Init ==
    /\ tickets_df = Some(SampleTickets)
    /\ data_source = "sample_data"
    /\ drafts = <<>>
    /\ clock = 0
    /\ result = [op |-> "init"]
    /\ requests = <<>>

(***************************************************************************)
(* Requests.  result holds the handler served last and the value it        *)
(* returned.                                                               *)
(***************************************************************************)
\* process_manual_workflow(ticket_id): provider is what generate_content
\* meets, draft_id the value uuid4().hex[:8] yields in _create_draft.  Next
\* to the returned dict, result keeps the request's ticket_id, the kind of
\* outcome generate_content met, and the status the complete-workflow
\* endpoint answers with: jsonify(result), hence 200, for every returned dict.
process_manual_workflow(ticket_id, provider, draft_id) ==
    /\ clock < MaxClock
    /\ clock' = clock + 1
    /\ UNCHANGED requests
    /\ UNCHANGED <<tickets_df, data_source>>
    /\ LET ticket == get_ticket_by_id(ticket_id)
       IN  IF ticket = None
           THEN /\ result' = [op |-> "process_manual_workflow", ticket_id |-> ticket_id,
                              http_status |-> 200, success |-> FALSE,
                              error |-> <<"Ticket ", ToString(ticket_id), " not found">>]
                /\ UNCHANGED drafts
           ELSE LET resolved == determine_response_type(ticket[1])
                    response_type == resolved[1]
                    reasoning == resolved[2]
                    template == get_template(response_type)
                IN  IF template = None
                    THEN /\ result' = [op |-> "process_manual_workflow",
                                       ticket_id |-> ticket_id, http_status |-> 200,
                                       success |-> FALSE,
                                       error |-> <<"Template ", response_type, " not found">>]
                         /\ UNCHANGED drafts
                    ELSE LET gpt_content == generate_content(ticket[1], response_type, provider)
                             final_email == _merge_template_content(ticket[1], template[1], gpt_content)
                         IN  /\ drafts' = _create_draft(drafts, final_email, ticket_id,
                                                        draft_id, clock')
                             /\ result' = [op |-> "process_manual_workflow",
                                           ticket_id |-> ticket_id, http_status |-> 200,
                                           success |-> TRUE,
                                           workflow_id |-> clock', ticket |-> ticket[1],
                                           response_type |-> response_type,
                                           reasoning |-> reasoning,
                                           gpt_content |-> gpt_content,
                                           final_email |-> final_email,
                                           draft_id |-> draft_id,
                                           provider_kind |-> provider.kind]

\* The create-draft request: _create_draft(email_content, ticket_id), then
\* get_draft of the new id.
CreateDraftRequest(input, draft_id) ==
    /\ clock < MaxClock
    /\ clock' = clock + 1
    /\ UNCHANGED requests
    /\ drafts' = _create_draft(drafts, input.email_content, input.ticket_id, draft_id, clock')
    /\ result' = [op |-> "create_draft", http_status |-> 200, success |-> TRUE,
                  draft_id |-> draft_id, draft |-> drafts'[draft_id]]
    /\ UNCHANGED <<tickets_df, data_source>>

\* A get-draft request that runs the load again, no source but the sample
\* data being there.
GetDraftRequestReloading(draft_id) ==
    /\ clock < MaxClock
    /\ clock' = clock + 1
    /\ UNCHANGED requests
    /\ result' = [op |-> "get_draft", draft_id |-> draft_id, draft |-> get_draft(draft_id),
                  http_status |-> IF get_draft(draft_id) = None THEN 404 ELSE 200]
    /\ tickets_df' = Some(SampleTickets)
    /\ data_source' = "sample_data"
    /\ UNCHANGED drafts

\* The get-draft request: get_draft(draft_id), answered 404 when it is None.
GetDraftRequest(draft_id) ==
    /\ clock < MaxClock
    /\ clock' = clock + 1
    /\ UNCHANGED requests
    /\ result' = [op |-> "get_draft", draft_id |-> draft_id, draft |-> get_draft(draft_id),
                  http_status |-> IF get_draft(draft_id) = None THEN 404 ELSE 200]
    /\ UNCHANGED <<tickets_df, data_source, drafts>>

\* validate_and_send_draft(draft_id, action, modifications), called by the
\* validate-send endpoint, which answers jsonify(result), hence 200.
validate_and_send_draft(draft_id, action, modifications) ==
    /\ clock < MaxClock
    /\ clock' = clock + 1
    /\ UNCHANGED requests
    /\ UNCHANGED <<tickets_df, data_source>>
    /\ LET draft == get_draft(draft_id)
           call == [op |-> "validate_and_send_draft", draft_id |-> draft_id,
                    requested |-> action, http_status |-> 200]
       IN  IF draft = None
           THEN /\ result' = Merge([success |-> FALSE, error |-> "Draft not found"], call)
                /\ UNCHANGED drafts
           ELSE IF action = "send"
           THEN IF "subject" \notin DOMAIN draft[1].email_content
                THEN \* draft['email_content']['subject'] raises KeyError, caught
                     /\ result' = Merge([success |-> FALSE, error |-> "'subject'"], call)
                     /\ UNCHANGED drafts
                ELSE /\ drafts' = [drafts EXCEPT ![draft_id] = SendUpdate(@, clock')]
                     /\ result' = Merge([success |-> TRUE, message |-> "Email sent successfully",
                                         action |-> "sent"], call)
           ELSE IF action = "edit"
           THEN /\ drafts' =
                     IF Truthy(modifications)
                     THEN [drafts EXCEPT ![draft_id] = EditUpdate(@, modifications[1], clock')]
                     ELSE drafts
                /\ result' = Merge([success |-> TRUE,
                                    message |-> "Draft updated with modifications",
                                    modifications |-> modifications, action |-> "edited"], call)
           ELSE /\ drafts' = [drafts EXCEPT ![draft_id] = CancelUpdate(@, clock')]
                /\ result' = Merge([success |-> TRUE, message |-> "Draft cancelled",
                                    action |-> "cancelled"], call)

\* determine_response_type(ticket) called on its own (the response-type
\* step of the manual workflow).
DetermineResponseType(ticket) ==
    /\ clock < MaxClock
    /\ clock' = clock + 1
    /\ UNCHANGED requests
    /\ LET resolved == determine_response_type(ticket)
       IN  result' = [op |-> "determine_response_type", ticket |-> ticket,
                      response_type |-> resolved[1], reasoning |-> resolved[2]]
    /\ UNCHANGED <<tickets_df, data_source, drafts>>

\* generate_content(ticket, response_type) called on its own (the
\* generate-content step of the manual workflow), meeting provider.
GenerateContent(ticket, response_type, provider) ==
    /\ clock < MaxClock
    /\ clock' = clock + 1
    /\ UNCHANGED requests
    /\ result' = [op |-> "generate_content", ticket |-> ticket,
                  response_type |-> response_type, provider |-> provider,
                  generated_content |-> generate_content(ticket, response_type, provider)]
    /\ UNCHANGED <<tickets_df, data_source, drafts>>

\* _merge_template_content(ticket, template, gpt_content) called on its own
\* (the merge-content step of the manual workflow) with the registry's
\* template of response_type.
MergeTemplateContent(ticket, response_type, gpt_content) ==
    /\ clock < MaxClock
    /\ clock' = clock + 1
    /\ UNCHANGED requests
    /\ result' = [op |-> "_merge_template_content", ticket |-> ticket,
                  response_type |-> response_type, gpt_content |-> gpt_content,
                  final_email |-> _merge_template_content(ticket, templates[response_type],
                                                          gpt_content)]
    /\ UNCHANGED <<tickets_df, data_source, drafts>>

\* A reload that builds the engine anew along with the data manager.
ReloadDataRequestNewEngine(env) ==
    /\ clock < MaxClock
    /\ clock' = clock + 1
    /\ UNCHANGED requests
    /\ LET loaded == load_data(None, env)
       IN  /\ tickets_df' = loaded[1]
           /\ data_source' = loaded[2]
           /\ result' = [op |-> "reload_data", success |-> TRUE,
                         tickets_loaded |-> IF loaded[1] = None THEN 0 ELSE Len(loaded[1][1]),
                         data_source |-> loaded[2], env |-> env, attempts |-> loaded[3]]
    /\ drafts' = <<>>

\* The reload-data request: reload_data() drops the table and runs
\* load_data, which meets env.  Next to the returned dict, result keeps env
\* and the loaders that ran.
ReloadDataRequest(env) ==
    /\ clock < MaxClock
    /\ clock' = clock + 1
    /\ UNCHANGED requests
    /\ LET loaded == load_data(None, env)
       IN  /\ tickets_df' = loaded[1]
           /\ data_source' = loaded[2]
           /\ result' = [op |-> "reload_data", success |-> TRUE,
                         tickets_loaded |-> IF loaded[1] = None THEN 0 ELSE Len(loaded[1][1]),
                         data_source |-> loaded[2], env |-> env, attempts |-> loaded[3]]
    /\ UNCHANGED drafts

(***************************************************************************)
(* validate_and_send_draft served statement by statement by a thread.      *)
(***************************************************************************)
\* The call is over: the thread keeps the value it returned.
Return(thread, value) ==
    /\ requests' = [requests EXCEPT ![thread] = [@ EXCEPT !.pc = "done"]]
    /\ result' = Merge(value, [op |-> "validate_and_send_draft",
                               draft_id |-> requests[thread].draft_id,
                               requested |-> requests[thread].action])

\* The thread takes up validate_and_send_draft(draft_id, action,
\* modifications): get_draft, the not-found return, the test of action (and,
\* for a send, the log line reading the subject).  found is the draft as
\* get_draft returned it.
BeginTransition(thread, draft_id, action, modifications) ==
    /\ thread \notin DOMAIN requests
    /\ clock < MaxClock
    /\ clock' = clock + 1
    /\ UNCHANGED <<tickets_df, data_source, drafts>>
    /\ LET draft == get_draft(draft_id)
           call == [draft_id |-> draft_id, action |-> action,
                    modifications |-> modifications, found |-> draft, began |-> clock']
           answer(value) ==
               /\ requests' = SetItem(requests, thread, Merge([pc |-> "done"], call))
               /\ result' = Merge(value, [op |-> "validate_and_send_draft",
                                          draft_id |-> draft_id, requested |-> action])
           goto(pc, items) ==
               /\ requests' = SetItem(requests, thread,
                                      Merge([pc |-> pc, items |-> items], call))
               /\ UNCHANGED result
       IN  IF draft = None
           THEN answer([success |-> FALSE, error |-> "Draft not found"])
           ELSE IF action = "send"
           THEN IF "subject" \notin DOMAIN draft[1].email_content
                THEN answer([success |-> FALSE, error |-> "'subject'"])
                ELSE goto("status", <<>>)
           ELSE IF action = "edit"
           THEN IF Truthy(modifications)
                THEN goto("loop", Items(modifications[1]))
                ELSE answer([success |-> TRUE, message |-> "Draft updated with modifications",
                             modifications |-> modifications, action |-> "edited"])
           ELSE goto("status", <<>>)

\* The thread runs its next statement: an assignment to the draft's status,
\* one turn of the edit loop, or the assignment of the timestamp followed
\* by the return.
StepTransition(thread) ==
    /\ thread \in DOMAIN requests
    /\ requests[thread].pc # "done"
    /\ UNCHANGED <<tickets_df, data_source, clock>>
    /\ LET call == requests[thread]
           draft_id == call.draft_id
       IN  IF call.pc = "status"
           THEN /\ drafts' = [drafts EXCEPT ![draft_id] =
                                 SetItem(@, "status",
                                         IF call.action = "send" THEN "sent" ELSE "cancelled")]
                /\ requests' = [requests EXCEPT ![thread] = [@ EXCEPT !.pc = "stamp"]]
                /\ UNCHANGED result
           ELSE IF call.pc = "loop"
           THEN LET key == Head(call.items)
                    email_content == drafts[draft_id].email_content
                IN  /\ drafts' =
                          IF key \in DOMAIN email_content
                          THEN [drafts EXCEPT ![draft_id] =
                                  SetItem(@, "email_content",
                                          SetItem(email_content, key,
                                                  call.modifications[1][key]))]
                          ELSE drafts
                    /\ requests' = [requests EXCEPT ![thread] =
                                       [@ EXCEPT !.items = Tail(call.items),
                                                 !.pc = IF Tail(call.items) = <<>>
                                                        THEN "stamp" ELSE "loop"]]
                    /\ UNCHANGED result
           ELSE IF call.action = "send"
           THEN /\ drafts' = [drafts EXCEPT ![draft_id] = SetItem(@, "sent_at", clock)]
                /\ Return(thread, [success |-> TRUE, message |-> "Email sent successfully",
                                   action |-> "sent"])
           ELSE IF call.action = "edit"
           THEN /\ drafts' = [drafts EXCEPT ![draft_id] = SetItem(@, "modified_at", clock)]
                /\ Return(thread, [success |-> TRUE,
                                   message |-> "Draft updated with modifications",
                                   modifications |-> call.modifications, action |-> "edited"])
           ELSE /\ drafts' = [drafts EXCEPT ![draft_id] = SetItem(@, "cancelled_at", clock)]
                /\ Return(thread, [success |-> TRUE, message |-> "Draft cancelled",
                                   action |-> "cancelled"])

\* A create-draft request served while no validate-send call is under way.
SeedDraft(input, draft_id) ==
    /\ requests = <<>>
    /\ CreateDraftRequest(input, draft_id)

Next ==
    \/ \E ticket_id \in TicketIdInputs, provider \in WorkflowProviderOutcomes, draft_id \in DraftIds :
          process_manual_workflow(ticket_id, provider, draft_id)
    \/ \E input \in CreateInputs, draft_id \in DraftIds :
          CreateDraftRequest(input, draft_id)
    \/ \E draft_id \in DraftIds : GetDraftRequest(draft_id)
    \/ \E draft_id \in DraftIds, action \in ActionInputs :
          \E modifications \in ModificationsOf(action) :
             validate_and_send_draft(draft_id, action, modifications)

Spec == Init /\ [][Next]_vars

(***************************************************************************)
(* The resolver as a pure function: every request hands it one of          *)
(* ResolverTicketInputs.                                                   *)
(***************************************************************************)
NextResolver == \E ticket \in ResolverTicketInputs : DetermineResponseType(ticket)

SpecResolver == Init /\ [][NextResolver]_vars

(***************************************************************************)
(* The triage path: the response-type step on its own, and the whole       *)
(* workflow, which runs the resolver and then looks its answer up in the   *)
(* template registry.                                                      *)
(***************************************************************************)
NextTriage ==
    \/ \E ticket \in ResolverTicketInputs : DetermineResponseType(ticket)
    \/ \E ticket_id \in TicketIdInputs, provider \in WorkflowProviderOutcomes, draft_id \in DraftIds :
          process_manual_workflow(ticket_id, provider, draft_id)

SpecTriage == Init /\ [][NextTriage]_vars

(***************************************************************************)
(* The content generator as a function of the ticket, the response type    *)
(* and what the provider does.                                             *)
(***************************************************************************)
NextGenerator ==
    \E ticket \in GeneratorTicketInputs, response_type \in GeneratorResponseTypes,
       provider \in GeneratorProviderOutcomes :
          GenerateContent(ticket, response_type, provider)

SpecGenerator == Init /\ [][NextGenerator]_vars

(***************************************************************************)
(* The merger as a function of the ticket, the template and the generated  *)
(* content.                                                                *)
(***************************************************************************)
NextMerger ==
    \E ticket \in MergerTicketInputs, response_type \in ResponseTypes :
       MergeTemplateContent(ticket, response_type,
                            _get_fallback_content(ticket, response_type))

SpecMerger == Init /\ [][NextMerger]_vars

(***************************************************************************)
(* The data manager under reloads from every source.                       *)
(***************************************************************************)
NextLoader == \E env \in LoadEnvironments : ReloadDataRequest(env)

SpecLoader == Init /\ [][NextLoader]_vars

(***************************************************************************)
(* The service under reloads: workflow, create-draft, get-draft and        *)
(* validate-send requests on whatever table the last load left.            *)
(***************************************************************************)
\* What a reload meets here: the sheet holds one row, the sheet holds a
\* header only, the local file holds one row, no source is there.
ServiceEnvironments ==
    { [sheets |-> "rows", sheets_table |-> <<BaseRow>>, local |-> "absent"],
      [sheets |-> "header_only", local |-> "absent"],
      [sheets |-> "not_configured", local |-> "rows", local_table |-> <<BaseRow>>],
      [sheets |-> "not_configured", local |-> "absent"] }

\* ticket_id of a workflow request here: a sample row and a loaded row.
ServiceTicketIds == {30000, 30010}

\* Validate-send requests here: the three actions, an edit carrying a subject.
ServiceTransitions ==
    { [action |-> "send", modifications |-> None],
      [action |-> "edit", modifications |-> Some([subject |-> <<"New subject">>])],
      [action |-> "cancel", modifications |-> None] }

NextService ==
    \/ \E env \in ServiceEnvironments : ReloadDataRequest(env)
    \/ \E ticket_id \in ServiceTicketIds, draft_id \in DraftIds :
          process_manual_workflow(ticket_id, [kind |-> "no_key"], draft_id)
    \/ \E input \in CreateInputs, draft_id \in DraftIds :
          CreateDraftRequest(input, draft_id)
    \/ \E draft_id \in DraftIds : GetDraftRequest(draft_id)
    \/ \E draft_id \in DraftIds, transition \in ServiceTransitions :
          validate_and_send_draft(draft_id, transition.action, transition.modifications)

SpecService == Init /\ [][NextService]_vars

(***************************************************************************)
(* Two threads serving validate-send requests on the drafts of the store,  *)
(* and get-draft requests served between their statements.                 *)
(***************************************************************************)
NextConcurrent ==
    \/ \E input \in CreateInputs, draft_id \in DraftIds : SeedDraft(input, draft_id)
    \/ \E draft_id \in DraftIds : GetDraftRequest(draft_id)
    \/ \E thread \in Threads, draft_id \in DraftIds, action \in ActionInputs :
          \E modifications \in RacingModificationsOf(action) :
             BeginTransition(thread, draft_id, action, modifications)
    \/ \E thread \in Threads : StepTransition(thread)

SpecConcurrent == Init /\ [][NextConcurrent]_vars

(***************************************************************************)
(* Properties of the draft lifecycle and of the workflow.                  *)
(***************************************************************************)
\* A step served by validate_and_send_draft: the handler sets result.op.
TransitionStep == result'.op = "validate_and_send_draft"

\* A step that served validate_and_send_draft(draft_id, action, ...).
TransitionOf(draft_id, action) ==
    /\ TransitionStep
    /\ result'.draft_id = draft_id
    /\ result'.requested = action

\* A step served by process_manual_workflow for ticket_id.
ProcessStep(ticket_id) ==
    /\ result'.op = "process_manual_workflow"
    /\ result'.ticket_id = ticket_id

\* A step served by the get-draft request for draft_id.
GetStep(draft_id) ==
    /\ result'.op = "get_draft"
    /\ result'.draft_id = draft_id

\* Every draft of the store before the step is in the store after it, as it was.
OtherDraftsUnchanged(draft_id) ==
    /\ DOMAIN drafts' = DOMAIN drafts
    /\ \A other \in DOMAIN drafts \ {draft_id} : drafts'[other] = drafts[other]

\* The keys of a draft dict but keys, and their values, are as before the step.
DraftUnchangedBut(draft_id, keys) ==
    /\ DOMAIN drafts'[draft_id] \ keys = DOMAIN drafts[draft_id] \ keys
    /\ \A k \in DOMAIN drafts[draft_id] \ keys : drafts'[draft_id][k] = drafts[draft_id][k]

\* C1: across transition calls a draft's status changes only along
\* draft->sent, draft->cancelled, draft->draft; a status sent or cancelled is
\* never changed by a later transition.
C1_StatusFollowsGraph ==
    [][TransitionStep =>
         \A d \in DOMAIN drafts :
            /\ drafts[d].status = "draft" => drafts'[d].status \in {"draft", "sent", "cancelled"}
            /\ drafts[d].status \in {"sent", "cancelled"} => drafts'[d].status = drafts[d].status]_vars

\* C2: an edit applied to a draft whose status is sent or cancelled leaves
\* every field of its email unchanged.
C2_EmailFrozenOnceSentOrCancelled ==
    [][\A d \in DOMAIN drafts :
          (drafts[d].status \in {"sent", "cancelled"} /\ TransitionOf(d, "edit"))
             => drafts'[d].email_content = drafts[d].email_content]_vars

\* The loaded table has a row for ticket_id.
TicketLoaded(ticket_id) ==
    /\ tickets_df # None
    /\ \E i \in DOMAIN tickets_df[1] :
          "ticket_id" \in DOMAIN tickets_df[1][i] /\ tickets_df[1][i].ticket_id = ticket_id

\* C3: a process that fails returns success = false with an error and leaves
\* the draft store as it was; process of an id of no loaded ticket fails with
\* the not-found error.
C3_FailedProcessCreatesNoDraft ==
    [][\A t \in TicketIdInputs :
          ProcessStep(t) =>
             /\ ~result'.success => ("error" \in DOMAIN result' /\ drafts' = drafts)
             /\ ~TicketLoaded(t) =>
                   /\ ~result'.success
                   /\ result'.error = <<"Ticket ", ToString(t), " not found">>
                   /\ drafts' = drafts]_vars

\* Witness of C3: a process has failed on a store that holds a draft.
C3_Witness ==
    /\ result.op = "process_manual_workflow"
    /\ ~result.success
    /\ DOMAIN drafts # {}

\* C4: a process that succeeds adds exactly one new draft to the store, with
\* status draft, the ticket_id, the returned final email, retrievable under
\* the returned draft_id; the returned response_type is the resolver's.
C4_SuccessfulProcessAddsOneDraft ==
    [][\A t \in TicketIdInputs :
          (ProcessStep(t) /\ result'.success) =>
             LET id == result'.draft_id
             IN  /\ id \notin DOMAIN drafts
                 /\ DOMAIN drafts' = DOMAIN drafts \cup {id}
                 /\ \A other \in DOMAIN drafts : drafts'[other] = drafts[other]
                 /\ drafts'[id].status = "draft"
                 /\ drafts'[id].ticket_id = t
                 /\ drafts'[id].email_content = result'.final_email
                 /\ result'.response_type = determine_response_type(result'.ticket)[1]
                 /\ (result'.ticket.priority_text = "Urgent"
                        => result'.response_type = "urgent_acknowledgment")]_vars

\* A step served by _create_draft: through the create-draft request or as
\* the last step of a successful process.
CreateStep ==
    \/ result'.op = "create_draft"
    \/ result'.op = "process_manual_workflow" /\ result'.success

\* C5: create allocates an id of no stored draft, so no stored draft is
\* replaced or altered by a create; the new record has status draft and
\* created_at set.
C5_CreateAllocatesFreshId ==
    [][CreateStep =>
         /\ result'.draft_id \notin DOMAIN drafts
         /\ \A other \in DOMAIN drafts :
               other \in DOMAIN drafts' /\ drafts'[other] = drafts[other]
         /\ drafts'[result'.draft_id].status = "draft"
         /\ "created_at" \in DOMAIN drafts'[result'.draft_id]]_vars

\* C6: transition and get of an id that is not in the store return not
\* found, for every action, and leave the store unchanged; get of a stored
\* id returns the current record and leaves the store unchanged.
C6_UnknownDraftIsNotFound ==
    [][\A d \in DraftIds :
          /\ \A a \in ActionInputs :
                (d \notin DOMAIN drafts /\ TransitionOf(d, a))
                   => /\ ~result'.success
                      /\ result'.error = "Draft not found"
                      /\ drafts' = drafts
          /\ GetStep(d) =>
                /\ drafts' = drafts
                /\ IF d \in DOMAIN drafts
                   THEN result'.draft = Some(drafts[d])
                   ELSE result'.draft = None]_vars

\* Witness of C6: a transition named a draft_id that is not in a store
\* holding another draft, and was answered not found.
C6_Witness ==
    /\ result.op = "validate_and_send_draft"
    /\ ~result.success
    /\ result.error = "Draft not found"
    /\ DOMAIN drafts # {}
    /\ result.draft_id \notin DOMAIN drafts

\* C7: send on a draft in status draft returns success, sets status to sent
\* and sent_at, and changes nothing else of the draft or of the store.
C7_SendFrame ==
    [][\A d \in DOMAIN drafts :
          (drafts[d].status = "draft" /\ TransitionOf(d, "send")) =>
             /\ result'.success
             /\ drafts'[d].status = "sent"
             /\ "sent_at" \in DOMAIN drafts'[d]
             /\ DraftUnchangedBut(d, {"status", "sent_at"})
             /\ OtherDraftsUnchanged(d)]_vars

\* C8: edit on a draft in status draft overwrites exactly the email fields
\* whose key is in modifications and in the email; no key is added, every
\* other field is untouched, status remains draft.
C8_EditOverwritesPresentKeysOnly ==
    [][\A d \in DOMAIN drafts :
          (drafts[d].status = "draft" /\ TransitionOf(d, "edit")) =>
             LET old == drafts[d].email_content
                 new == drafts'[d].email_content
                 m == result'.modifications
                 mods == IF m = None THEN <<>> ELSE m[1]
             IN  /\ result'.action = "edited"
                 /\ DOMAIN new = DOMAIN old
                 /\ \A k \in DOMAIN old :
                       new[k] = IF k \in DOMAIN mods THEN mods[k] ELSE old[k]
                 /\ drafts'[d].status = "draft"
                 /\ result'.success]_vars

\* Witness of C8: an edit carrying to, body and the unknown key cc was
\* applied to a draft whose email has no cc: body is overwritten, cc is not
\* added, the draft is still a draft.
C8_Witness ==
    /\ result.op = "validate_and_send_draft"
    /\ result.success
    /\ result.action = "edited"
    /\ result.modifications # None
    /\ DOMAIN result.modifications[1] = {"to", "body", "cc"}
    /\ drafts[result.draft_id].status = "draft"
    /\ DOMAIN drafts[result.draft_id].email_content = {"to", "subject", "body", "ticket_id"}
    /\ drafts[result.draft_id].email_content.body = <<"New body">>

\* C9: cancel on a draft in status draft returns success, sets status to
\* cancelled and cancelled_at, and leaves the draft's email, ticket_id,
\* created_at and all other drafts unchanged.
C9_CancelFrame ==
    [][\A d \in DOMAIN drafts :
          (drafts[d].status = "draft" /\ TransitionOf(d, "cancel")) =>
             /\ result'.success
             /\ drafts'[d].status = "cancelled"
             /\ "cancelled_at" \in DOMAIN drafts'[d]
             /\ DraftUnchangedBut(d, {"status", "cancelled_at"})
             /\ OtherDraftsUnchanged(d)]_vars

\* Witness of C9: a cancel was applied to a draft in status draft (no
\* sent_at), in a store that holds another draft.
C9_Witness ==
    /\ result.op = "validate_and_send_draft"
    /\ result.requested = "cancel"
    /\ result.success
    /\ drafts[result.draft_id].status = "cancelled"
    /\ "sent_at" \notin DOMAIN drafts[result.draft_id]
    /\ Cardinality(DOMAIN drafts) = 2

\* C10: for a ticket whose priority_text is Urgent or High the resolver
\* returns urgent_acknowledgment, whatever is_functional and is_technical.
C10_UrgentOrHighIsUrgentAcknowledgment ==
    (/\ result.op = "determine_response_type"
     /\ "priority_text" \in DOMAIN result.ticket
     /\ result.ticket.priority_text \in {"Urgent", "High"})
    => result.response_type = "urgent_acknowledgment"

\* Witness of C10: the resolver answered for a High ticket that is both
\* functional and technical.
C10_Witness ==
    /\ result.op = "determine_response_type"
    /\ DOMAIN result.ticket = {"priority_text", "is_functional", "is_technical"}
    /\ result.ticket.priority_text = "High"
    /\ result.ticket.is_functional
    /\ result.ticket.is_technical
    /\ result.response_type = "urgent_acknowledgment"

\* C11: for a ticket whose priority_text is Low, Medium or missing and whose
\* is_functional is true the resolver returns clarification_request, whether
\* is_technical is true or not.
C11_FunctionalPrecedesTechnical ==
    (/\ result.op = "determine_response_type"
     /\ ("priority_text" \notin DOMAIN result.ticket
            \/ result.ticket.priority_text \in {"Low", "Medium"})
     /\ "is_functional" \in DOMAIN result.ticket
     /\ result.ticket.is_functional)
    => result.response_type = "clarification_request"

\* Witness of C11: the resolver answered clarification_request for a Medium
\* ticket that is both functional and technical.
C11_Witness ==
    /\ result.op = "determine_response_type"
    /\ DOMAIN result.ticket = {"priority_text", "is_functional", "is_technical"}
    /\ result.ticket.priority_text = "Medium"
    /\ result.ticket.is_functional
    /\ result.ticket.is_technical
    /\ result.response_type = "clarification_request"

\* C12: for a ticket whose priority is not Urgent or High and whose
\* is_functional is false (or missing) the resolver returns
\* standard_acknowledgment, through the technical branch or the default one.
C12_NonFunctionalIsStandardAcknowledgment ==
    (/\ result.op = "determine_response_type"
     /\ ("priority_text" \notin DOMAIN result.ticket
            \/ result.ticket.priority_text \notin {"Urgent", "High"})
     /\ ("is_functional" \notin DOMAIN result.ticket
            \/ ~result.ticket.is_functional))
    => result.response_type = "standard_acknowledgment"

\* Witness of C12: the resolver answered standard_acknowledgment through its
\* default branch, for a ticket with both flags false.
C12_Witness ==
    /\ result.op = "determine_response_type"
    /\ DOMAIN result.ticket = {"priority_text", "is_functional", "is_technical"}
    /\ result.ticket.priority_text = "Low"
    /\ ~result.ticket.is_functional
    /\ ~result.ticket.is_technical
    /\ result.response_type = "standard_acknowledgment"
    /\ result.reasoning = <<"Standard processing">>

\* C13: the resolver answers, for a ticket with any subset of its three
\* fields, one of the three response types; each of the three has a template
\* in the registry; process never fails with a template not found.
C13_ResolverTotalAndCoveredByRegistry ==
    /\ \A r \in ResponseTypes : get_template(r) # None
    /\ result.op = "determine_response_type"
          => /\ result.response_type \in ResponseTypes
             /\ get_template(result.response_type) # None
    /\ (result.op = "process_manual_workflow" /\ ~result.success)
          => result.error = <<"Ticket ", ToString(result.ticket_id), " not found">>

\* Witness of C13: the resolver answered clarification_request for a ticket
\* that holds none but is_functional, and the registry has that template.
C13_Witness ==
    /\ result.op = "determine_response_type"
    /\ DOMAIN result.ticket = {"is_functional"}
    /\ result.response_type = "clarification_request"
    /\ get_template(result.response_type) # None

\* C14: generate returns a text that is not empty, for every outcome of the
\* provider: key missing or placeholder, call raising, call answering with
\* any content (empty and whitespace-only included).
C14_GenerateNeverReturnsEmpty ==
    result.op = "generate_content" => result.generated_content # <<>>

\* The fallback paragraphs of two response types are the same one.
SameFallback(r1, r2) ==
    _get_fallback_content(result.ticket, r1) = _get_fallback_content(result.ticket, r2)

\* C15: when the key is not configured or the call raises, generate returns
\* the fallback paragraph of the response type: not empty, the same for
\* every ticket, distinct for each of the three response types, and one
\* more paragraph shared by every other response type.
C15_FallbackSelectedByResponseTypeAlone ==
    (result.op = "generate_content"
       /\ result.provider.kind \in {"no_key", "placeholder_key", "error"})
    => /\ result.generated_content # <<>>
       /\ \A t \in GeneratorTicketInputs :
             generate_content(t, result.response_type, result.provider)
                = result.generated_content
       /\ \A r \in GeneratorResponseTypes \ {result.response_type} :
             (generate_content(result.ticket, r, result.provider) = result.generated_content)
                <=> (r \notin ResponseTypes /\ result.response_type \notin ResponseTypes)

\* Witness of C15: the provider call raised for a ticket that has a subject
\* and a response type outside the three; generate answered the generic
\* paragraph, which is none of the three.
C15_Witness ==
    /\ result.op = "generate_content"
    /\ result.provider.kind = "error"
    /\ result.response_type = "escalation"
    /\ "ticket_subject" \in DOMAIN result.ticket
    /\ result.generated_content # <<>>
    /\ \A r \in ResponseTypes : ~SameFallback(r, "escalation")
    /\ SameFallback("follow_up", "escalation")

\* sub occurs in text.
Contains(text, sub) ==
    \E i \in 1..(Len(text) - Len(sub) + 1) : SubSeq(text, i, i + Len(sub) - 1) = sub

\* C16: process of a loaded ticket succeeds whatever generate_content meets;
\* the draft it stores has the generated content in its body, and when the
\* key is missing or the provider call raises that content is the fallback
\* paragraph of the response type.
C16_GenerationFailureNeverSurfaced ==
    [][\A t \in TicketIdInputs :
          (ProcessStep(t) /\ TicketLoaded(t)) =>
             /\ result'.success
             /\ result'.draft_id \in DOMAIN drafts'
             /\ Contains(drafts'[result'.draft_id].email_content.body, result'.gpt_content)
             /\ result'.provider_kind # "content" =>
                   /\ result'.gpt_content
                         = _get_fallback_content(result'.ticket, result'.response_type)
                   /\ result'.gpt_content # <<>>]_vars

\* Witness of C16: the provider call raised during a process of the Urgent
\* ticket 30002; the process succeeded and the stored draft's body holds the
\* urgent fallback paragraph.
C16_Witness ==
    /\ result.op = "process_manual_workflow"
    /\ result.success
    /\ result.provider_kind = "error"
    /\ result.ticket_id = 30002
    /\ drafts[result.draft_id].status = "draft"
    /\ Contains(drafts[result.draft_id].email_content.body,
                _get_fallback_content(result.ticket, "urgent_acknowledgment"))

\* A ticket field is absent: no such key, or the key holds None.
Absent(ticket, key) == key \notin DOMAIN ticket \/ ticket[key] = PyNone

\* The text a field contributes when an absent field counts as the empty
\* string.
TextOrEmpty(ticket, key) ==
    IF Absent(ticket, key) \/ ticket[key] = "" THEN <<>> ELSE <<ticket[key]>>

\* C17: the merger returns {to, subject, body, ticket_id} for a registry
\* template, and every absent ticket field (key missing, or holding None)
\* stands in to, subject and body as the empty string.
C17_AbsentFieldsMergeAsEmpty ==
    result.op = "_merge_template_content" =>
       LET ticket == result.ticket
           template == templates[result.response_type]
           expected == [ticket_id |-> StrId(ticket),
                        customer_name |-> TextOrEmpty(ticket, "customer"),
                        issue |-> TextOrEmpty(ticket, "ticket_subject"),
                        team |-> TextOrEmpty(ticket, "team_clean"),
                        gpt_content |-> result.gpt_content]
       IN  /\ DOMAIN result.final_email = {"to", "subject", "body", "ticket_id"}
           /\ Absent(ticket, "customer_email") => result.final_email.to = ""
           /\ result.final_email.subject = Format(template.subject, expected)
           /\ result.final_email.body = Format(template.body, expected)

\* The rows of the loaded table.
LoadedRows ==
    IF tickets_df = None THEN {} ELSE { tickets_df[1][i] : i \in DOMAIN tickets_df[1] }

\* C18: every row of the table after a load, from any source and for any
\* raw content, has priority_text in {Low, Medium, High, Urgent}, team_clean
\* in {Integration 1, Integration 2, DevOps}, stage_clean in {New, In
\* Progress, Closed} and boolean flags; the priority codes 0..3 give Low,
\* Medium, High, Urgent and every other priority gives Medium.
C18_DerivedFieldsAreEnumerated ==
    \A row \in LoadedRows :
       /\ row.priority_text \in {"Low", "Medium", "High", "Urgent"}
       /\ row.team_clean \in {"Integration 1", "Integration 2", "DevOps"}
       /\ row.stage_clean \in {"New", "In Progress", "Closed"}
       /\ row.is_functional \in BOOLEAN
       /\ row.is_technical \in BOOLEAN
       /\ "priority" \in DOMAIN row =>
             row.priority_text =
                IF row.priority.kind = "num" /\ row.priority.num \in 0..3
                THEN <<"Low", "Medium", "High", "Urgent">>[row.priority.num + 1]
                ELSE "Medium"

\* Witness of C18: a table loaded from the local file has a row whose
\* priority is no number and whose team, description and stage are empty
\* cells; its derived fields are Medium, DevOps, New, false, false.
C18_Witness ==
    /\ data_source = "local_file"
    /\ \E row \in LoadedRows :
          /\ {"team_name", "priority", "description", "stage_name"} \subseteq DOMAIN row
          /\ isna(row.priority) /\ isna(row.team_name)
          /\ isna(row.description) /\ isna(row.stage_name)
          /\ row.priority_text = "Medium"
          /\ row.team_clean = "DevOps"
          /\ row.stage_clean = "New"
          /\ ~row.is_functional /\ ~row.is_technical

\* C19: a raw team text holding "Integration 1" or "Intégration 1" gives
\* Integration 1, also when it holds a marker of Integration 2; otherwise a
\* text holding "Integration 2" or "Intégration 2" gives Integration 2;
\* every other text, and a missing value, gives DevOps.
C19_TeamNormalizationOrder ==
    \A row \in LoadedRows :
       "team_name" \in DOMAIN row =>
          LET team_name == row.team_name
              first == team_name.kind = "text"
                          /\ \E i \in DOMAIN team_name.text :
                                team_name.text[i] \in {"Integration 1", "Intégration 1"}
              second == team_name.kind = "text"
                           /\ \E i \in DOMAIN team_name.text :
                                 team_name.text[i] \in {"Integration 2", "Intégration 2"}
          IN  row.team_clean = IF first THEN "Integration 1"
                               ELSE IF second THEN "Integration 2"
                               ELSE "DevOps"

\* Witness of C19: a loaded row whose team text names Integration 2 before
\* Integration 1 is normalized to Integration 1.
C19_Witness ==
    \E row \in LoadedRows :
       /\ "team_name" \in DOMAIN row
       /\ row.team_name = Text(<<"Integration 2", " / ", "Integration 1">>)
       /\ row.team_clean = "Integration 1"

\* The record a validate-send call gives when it is served alone on draft.
Alone(draft, call, now) ==
    IF call.action = "send"
    THEN IF "subject" \in DOMAIN draft.email_content THEN SendUpdate(draft, now) ELSE draft
    ELSE IF call.action = "edit"
    THEN IF Truthy(call.modifications) THEN EditUpdate(draft, call.modifications[1], now)
         ELSE draft
    ELSE CancelUpdate(draft, now)

\* A draft record with the instants of its timestamps left out.
Untimed(draft) ==
    [k \in DOMAIN draft |->
        IF k \in {"created_at", "sent_at", "modified_at", "cancelled_at"}
        THEN "set" ELSE draft[k]]

\* C20: when two validate-send calls on the same stored draft are over,
\* steps interleaved or not, the draft's record is the one that serving
\* the two calls one after the other, in one of the two orders, gives
\* (the instants of the timestamps aside).
C20_TransitionsAreSerializable ==
    \A a \in DOMAIN requests, b \in DOMAIN requests :
       (/\ a # b
        /\ requests[a].pc = "done" /\ requests[b].pc = "done"
        /\ requests[a].draft_id = requests[b].draft_id
        /\ requests[a].began < requests[b].began
        /\ requests[a].found # None)
       => LET before == requests[a].found[1]
              final == drafts[requests[a].draft_id]
          IN  Untimed(final) \in
                 { Untimed(Alone(Alone(before, requests[a], 0), requests[b], 0)),
                   Untimed(Alone(Alone(before, requests[b], 0), requests[a], 0)) }

\* C22: an endpoint answers 404 when the ticket or draft it names is not
\* found: the complete-workflow endpoint for an unknown ticket_id, the
\* validate-send endpoint and the get-draft endpoint for an unknown draft_id.
C22_NotFoundAnswers404 ==
    /\ (result.op = "process_manual_workflow" /\ ~result.success) => result.http_status = 404
    /\ (result.op = "validate_and_send_draft" /\ ~result.success
           /\ result.error = "Draft not found") => result.http_status = 404
    /\ (result.op = "get_draft" /\ result.draft = None) => result.http_status = 404

\* C24: a transition on a stored draft, whatever its status, returns
\* success for each of send, edit and cancel.
C24_NoTransitionRejected ==
    [][\A d \in DOMAIN drafts : \A a \in {"send", "edit", "cancel"} :
          TransitionOf(d, a) => result'.success]_vars

\* C25: a successful edit sets modified_at to the instant of the request,
\* for every modifications argument.
C25_EditSetsModifiedAt ==
    [][\A d \in DOMAIN drafts :
          (TransitionOf(d, "edit") /\ result'.success) =>
             /\ "modified_at" \in DOMAIN drafts'[d]
             /\ drafts'[d].modified_at = clock']_vars

\* C27: a draft created by process (its email holds a ticket_id) has the
\* ticket_id of its email equal to its own ticket_id, after any transitions.
C27_EmailTicketIdIsDraftTicketId ==
    \A d \in DOMAIN drafts :
       "ticket_id" \in DOMAIN drafts[d].email_content
          => drafts[d].email_content.ticket_id = drafts[d].ticket_id

\* C28: a transition on a stored draft with an action that is none of send,
\* edit, cancel is served as a cancel: status cancelled, cancelled_at set to
\* the instant of the request, success returned with action cancelled.
C28_OtherActionIsCancel ==
    [][\A d \in DOMAIN drafts : \A a \in ActionInputs \ {"send", "edit", "cancel"} :
          TransitionOf(d, a) =>
             /\ result'.success
             /\ result'.action = "cancelled"
             /\ drafts'[d].status = "cancelled"
             /\ "cancelled_at" \in DOMAIN drafts'[d]
             /\ drafts'[d].cancelled_at = clock'
             /\ DraftUnchangedBut(d, {"status", "cancelled_at"})]_vars

\* Witness of C28: the action archive was served on a sent draft, which is
\* now cancelled and keeps its sent_at.
C28_Witness ==
    /\ result.op = "validate_and_send_draft"
    /\ result.requested = "archive"
    /\ result.success
    /\ result.draft_id \in DOMAIN drafts
    /\ drafts[result.draft_id].status = "cancelled"
    /\ "sent_at" \in DOMAIN drafts[result.draft_id]
    /\ drafts[result.draft_id].cancelled_at = clock

\* The order in which a load goes through the sources.
SourceOrder == <<"google_sheets", "local_file", "sample_data">>

\* The place of a source in SourceOrder.
Rank(source) == CHOOSE i \in DOMAIN SourceOrder : SourceOrder[i] = source

\* C21: a load goes through the sources in the order sheet, local file,
\* sample data, each at most once: the local file is read only when the
\* sheet did not succeed, the sample data is created only when neither
\* succeeded, and data_source names the source the loaded table came from.
C21_OrderedFallbackEvaluatedOnce ==
    result.op = "reload_data" =>
       LET attempts == result.attempts
           env == result.env
           sheets_succeeded == env.sheets \in {"rows", "header_only"}
           local_succeeded == env.local = "rows"
       IN  /\ attempts # <<>>
           /\ attempts[1] = "google_sheets"
           /\ \A i \in DOMAIN attempts : attempts[i] \in {"google_sheets", "local_file", "sample_data"}
           /\ \A i \in DOMAIN attempts : \A j \in DOMAIN attempts :
                 i < j => Rank(attempts[i]) < Rank(attempts[j])
           /\ (\E i \in DOMAIN attempts : attempts[i] = "local_file") => ~sheets_succeeded
           /\ (\E i \in DOMAIN attempts : attempts[i] = "sample_data")
                 => (~sheets_succeeded /\ ~local_succeeded)
           /\ data_source = attempts[Len(attempts)]
           /\ data_source = result.data_source
           /\ tickets_df # None =>
                 tickets_df[1] =
                    CASE data_source = "google_sheets" -> _preprocess_data(env.sheets_table)
                      [] data_source = "local_file" -> _preprocess_data(env.local_table)
                      [] OTHER -> SampleTickets

\* Witness of C21: the sheet and the local file both hold rows; the load
\* took the sheet's rows and did not read the local file.
C21_Witness ==
    /\ result.op = "reload_data"
    /\ result.env.sheets = "rows"
    /\ result.env.local = "rows"
    /\ result.attempts = <<"google_sheets">>
    /\ data_source = "google_sheets"
    /\ tickets_df = Some(_preprocess_data(result.env.sheets_table))
    /\ result.env.sheets_table # result.env.local_table

\* C30: after a completed load, whichever source was chosen, the tickets
\* table is not null.
C30_LoadAlwaysYieldsTable ==
    result.op = "reload_data" => tickets_df # None

\* C29: every draft a get answers with, also while another request is
\* between two statements of a transition on it, has a status among draft,
\* sent and cancelled, has sent_at when its status is sent, cancelled_at
\* when it is cancelled, and neither of them when it is draft.
C29_ObservedDraftIsConsistent ==
    (result.op = "get_draft" /\ result.draft # None) =>
       LET draft == result.draft[1]
       IN  /\ draft.status \in {"draft", "sent", "cancelled"}
           /\ draft.status = "sent" => "sent_at" \in DOMAIN draft
           /\ draft.status = "cancelled" => "cancelled_at" \in DOMAIN draft
           /\ draft.status = "draft" =>
                 ("sent_at" \notin DOMAIN draft /\ "cancelled_at" \notin DOMAIN draft)

\* C23: no request removes a draft from the store: over workflow, create,
\* validate-send, get and reload requests the set of draft ids only grows,
\* and a get of a stored id answers with the stored draft, whether or not
\* the loaded table still holds the draft's ticket.
C23_DraftsAreNeverDestroyed ==
    [][ /\ DOMAIN drafts \subseteq DOMAIN drafts'
        /\ (result'.op = "get_draft" /\ result'.draft_id \in DOMAIN drafts) =>
              /\ result'.draft = Some(drafts[result'.draft_id])
              /\ result'.http_status = 200 ]_vars

\* Witness of C23: a get answered with a draft whose ticket is in no row of
\* the table a reload has loaded since.
C23_Witness ==
    /\ result.op = "get_draft"
    /\ result.draft # None
    /\ result.http_status = 200
    /\ data_source \in {"google_sheets", "local_file"}
    /\ tickets_df # None
    /\ get_ticket_by_id(result.draft[1].ticket_id) = None

\* C26: workflow, create, validate-send and get requests leave the loaded
\* table and data_source as they are; only a reload request replaces them.
C26_OnlyReloadReplacesDataset ==
    [][ result'.op # "reload_data" => UNCHANGED <<tickets_df, data_source>> ]_vars

\* Witness of C26: a workflow request succeeded on a row of the table the
\* sheet supplied, and the table is still the one the reload loaded.
C26_Witness ==
    /\ result.op = "process_manual_workflow"
    /\ result.success
    /\ result.ticket_id = 30010
    /\ data_source = "google_sheets"
    /\ tickets_df = Some(_preprocess_data(<<BaseRow>>))

====
